---- MODULE Spec2Model ----
(***************************************************************************)
(* femtosync: a one-way rsync-style synchronizer over HTTP.                *)
(*   femtosync-sender.py    plans the sync, generates and frames patches   *)
(*   femtosync-receiver.py  serves the endpoints that mutate the target    *)
(*                                                                         *)
(* Byte strings are sequences of small naturals.  SHA-256 is modelled as   *)
(* an injective function of the bytes it hashes.  Integers are Python's    *)
(* unbounded integers; the values of the model stay far below 2^31.        *)
(***************************************************************************)
EXTENDS Integers, Sequences, FiniteSets, TLC

\* ------------------------------------------------------------------------
\* Bounds of the model
\* ------------------------------------------------------------------------
\* the longest byte string of the patch pipeline's inputs
MaxLen == 4
Bytes == {0, 1, 2}
\* entries of a tree below its root
MaxEntries == 2
\* modification times are 1..MaxMTime
MaxMTime == 2
\* transport failures in one run of the sender
MaxFaults == 1
\* requests an arbitrary client sends to the receiver
MaxRequests == 2
\* items of an instruction stream handed to the framer
MaxItems == 3
\* runs of the sender, one after the other, against one receiver
MaxRuns == 2

\* ------------------------------------------------------------------------
\* Program constants (scaled: the program uses 1 MiB blocks, 16 MiB chunks)
\* ------------------------------------------------------------------------
ROLLING_WINDOW_SIZE == 2
MAX_CHUNK_SIZE == 11
\* struct.pack("<q", ...) writes 8 bytes
HEADER_SIZE == 8

ByteSeqs == UNION {[1..n -> Bytes] : n \in 0..MaxLen}

Min(x, y) == IF x <= y THEN x ELSE y
Abs(x) == IF x < 0 THEN -x ELSE x

\* Python's s[i:j] for 0 <= i, 0-based, half-open, clamped to the length
Slice(s, i, j) == SubSeq(s, i + 1, Min(j, Len(s)))

\* sum(buffer)
RECURSIVE Sum(_)
Sum(s) == IF s = <<>> THEN 0 ELSE Head(s) + Sum(Tail(s))

\* sum((len(buffer) - i) * d for i, d in enumerate(buffer))
RECURSIVE WeightedSum(_)
WeightedSum(s) == IF s = <<>> THEN 0 ELSE Len(s) * Head(s) + WeightedSum(Tail(s))

\* (b << 16) | a; a stays in 0..65535 in the model, where the or is a sum
RollingChecksum(a, b) == b * 65536 + a

\* hashlib.sha256(...).hexdigest(): collision-free on the model's inputs
SHA256(s) == s

\* read_file_bytes(f, size) with f positioned at pos
read_file_bytes(data, pos, size) == Slice(data, pos, pos + size)

\* ------------------------------------------------------------------------
\* Receiver: the block-checksum table of a file's bytes
\* ------------------------------------------------------------------------
BlockCount(data) == (Len(data) + ROLLING_WINDOW_SIZE - 1) \div ROLLING_WINDOW_SIZE

Block(data, k) == read_file_bytes(data, k * ROLLING_WINDOW_SIZE, ROLLING_WINDOW_SIZE)

\* position i of both lists describes block i - 1
BlockChecksumsOf(data) ==
  [rollable |-> [i \in 1..BlockCount(data) |->
                   RollingChecksum(Sum(Block(data, i - 1)), WeightedSum(Block(data, i - 1)))],
   strong   |-> [i \in 1..BlockCount(data) |-> SHA256(Block(data, i - 1))]]

EmptyChecksums == [rollable |-> <<>>, strong |-> <<>>]

\* ------------------------------------------------------------------------
\* Sender: generate_file_patch, one loop iteration at a time
\* ------------------------------------------------------------------------
Copy(k) == [t |-> "copy", k |-> k, d |-> <<>>]
Literal(d) == [t |-> "literal", k |-> 0, d |-> d]

GenInit(source, table) ==
  LET w == read_file_bytes(source, 0, ROLLING_WINDOW_SIZE)
  IN [pos |-> Len(w), window |-> w, a |-> Sum(w), b |-> WeightedSum(w),
      lit |-> <<>>, eof |-> FALSE, out |-> <<>>]

\* a mutant: the weak checksum alone decides a match
MatchedBlockIndexWeakOnly(st, table) ==
  LET cs == RollingChecksum(st.a, st.b)
      cands == {i \in 1..Len(table.rollable) : table.rollable[i] = cs}
  IN IF cands = {} THEN -1
     ELSE (CHOOSE i \in cands : \A j \in cands : i <= j) - 1

\* the first destination block with the window's rolling and strong checksum
MatchedBlockIndex(st, table) ==
  LET cs == RollingChecksum(st.a, st.b)
      cands == {i \in 1..Len(table.rollable) :
                  table.rollable[i] = cs /\ table.strong[i] = SHA256(st.window)}
  IN IF cands = {} THEN -1
     ELSE (CHOOSE i \in cands : \A j \in cands : i <= j) - 1

\* a generator that yields its literal buffer whether it holds bytes or not
FlushLiteralAlways(st) == [st EXCEPT !.out = Append(@, Literal(st.lit)), !.lit = <<>>]

FlushLiteral(st) ==
  IF st.lit # <<>> THEN [st EXCEPT !.out = Append(@, Literal(st.lit)), !.lit = <<>>]
  ELSE st

\* a match: flush the literal buffer, yield the index, refill the window
GenMatch(st, source, m) ==
  LET f == FlushLiteral(st)
      w == read_file_bytes(source, st.pos, ROLLING_WINDOW_SIZE)
  IN [f EXCEPT !.out = Append(@, Copy(m)), !.window = w, !.pos = st.pos + Len(w),
               !.a = Sum(w), !.b = WeightedSum(w)]

\* a roll that adds the sum of the window before the roll to b
GenRollStaleSum(st, source) ==
  LET old_byte == Head(st.window)
      reads == ~st.eof /\ st.pos < Len(source)
      new_byte == IF reads THEN source[st.pos + 1] ELSE 0
      a2 == st.a - (old_byte - new_byte)
      b2 == st.b - (old_byte * ROLLING_WINDOW_SIZE - st.a)
  IN [st EXCEPT !.window = IF reads THEN Append(Tail(st.window), new_byte)
                           ELSE Tail(st.window),
                !.pos = IF reads THEN st.pos + 1 ELSE st.pos,
                !.eof = IF st.eof THEN TRUE ELSE ~reads,
                !.a = a2, !.b = b2,
                !.lit = Append(st.lit, old_byte)]

\* no match: roll the window forward by one byte
GenRoll(st, source) ==
  LET old_byte == Head(st.window)
      reads == ~st.eof /\ st.pos < Len(source)
      new_byte == IF reads THEN source[st.pos + 1] ELSE 0
      a2 == st.a - (old_byte - new_byte)
      b2 == st.b - (old_byte * ROLLING_WINDOW_SIZE - a2)
  IN [st EXCEPT !.window = IF reads THEN Append(Tail(st.window), new_byte)
                           ELSE Tail(st.window),
                !.pos = IF reads THEN st.pos + 1 ELSE st.pos,
                !.eof = IF st.eof THEN TRUE ELSE ~reads,
                !.a = a2, !.b = b2,
                !.lit = Append(st.lit, old_byte)]

GenStep(st, source, table) ==
  LET m == MatchedBlockIndex(st, table)
  IN IF m # -1 THEN GenMatch(st, source, m) ELSE GenRoll(st, source)

RECURSIVE GenRun(_, _, _)
GenRun(st, source, table) ==
  IF st.window = <<>> THEN FlushLiteral(st).out
  ELSE GenRun(GenStep(st, source, table), source, table)

generate_file_patch(source, table) == GenRun(GenInit(source, table), source, table)

\* ------------------------------------------------------------------------
\* Wire format: struct.pack("<q", v) / struct.unpack("<q", bytes)
\* ------------------------------------------------------------------------
Pow256(i) == IF i = 0 THEN 1 ELSE IF i = 1 THEN 256 ELSE IF i = 2 THEN 65536 ELSE 16777216

\* byte i (0 = least significant) of 0 <= u < 2^31
ByteOf(u, i) == IF i > 3 THEN 0 ELSE (u \div Pow256(i)) % 256

Pack(v) ==
  [i \in 1..HEADER_SIZE |->
     IF v >= 0 THEN ByteOf(v, i - 1) ELSE 255 - ByteOf(-v - 1, i - 1)]

\* values of magnitude 2^24 or more are reported as +-Huge
Huge == Pow256(3)

Unpack(h) ==
  LET neg == h[HEADER_SIZE] >= 128
      dig(i) == IF neg THEN 255 - h[i] ELSE h[i]
      big == \E i \in 4..HEADER_SIZE : dig(i) # 0
      low == dig(1) + 256 * dig(2) + 65536 * dig(3)
  IN IF neg THEN (IF big THEN -Huge ELSE -low - 1)
     ELSE (IF big THEN Huge ELSE low)

\* ------------------------------------------------------------------------
\* Sender: chunk_file_patch
\* ------------------------------------------------------------------------
\* a framer that never starts a new chunk
ChunkNeverFlush(st, need, max) == st

ChunkFlushIf(st, need, max) ==
  IF max - Len(st.cur) < need
  THEN [cur |-> <<>>, chunks |-> Append(st.chunks, st.cur)]
  ELSE st

RECURSIVE ChunkLiteral(_, _, _, _)
ChunkLiteral(st, data, position, max) ==
  LET st1 == ChunkFlushIf(st, HEADER_SIZE + 1, max)
      data_slice == Slice(data, position, position + (max - Len(st1.cur) - HEADER_SIZE))
  IN IF data_slice = <<>> THEN st1
     ELSE ChunkLiteral([st1 EXCEPT !.cur = @ \o Pack(Len(data_slice)) \o data_slice],
                       data, position + Len(data_slice), max)

ChunkItem(st, item, max) ==
  IF item.t = "copy"
  THEN LET st1 == ChunkFlushIf(st, HEADER_SIZE, max)
       IN [st1 EXCEPT !.cur = @ \o Pack(-item.k)]
  ELSE ChunkLiteral(st, item.d, 0, max)

RECURSIVE ChunkRun(_, _, _)
ChunkRun(st, items, max) ==
  IF items = <<>>
  THEN (IF st.cur # <<>> THEN Append(st.chunks, st.cur) ELSE st.chunks)
  ELSE ChunkRun(ChunkItem(st, Head(items), max), Tail(items), max)

chunk_file_patch(items, max) == ChunkRun([cur |-> <<>>, chunks |-> <<>>], items, max)

\* ------------------------------------------------------------------------
\* Receiver: the parsing loop of create_or_append_patch
\* ------------------------------------------------------------------------
\* the result: the bytes written to the side file, and whether the loop
\* ended without an exception (a header of fewer than 8 bytes raises)
RECURSIVE ApplyLoop(_, _, _, _)
ApplyLoop(old_f, written, file_patch, patch_position) ==
  IF patch_position >= Len(file_patch) THEN [written |-> written, ok |-> TRUE]
  ELSE LET h == Slice(file_patch, patch_position, patch_position + HEADER_SIZE)
       IN IF Len(h) < HEADER_SIZE THEN [written |-> written, ok |-> FALSE]
          ELSE LET v == Unpack(h)
                   p == patch_position + HEADER_SIZE
               IN IF v <= 0
                  THEN ApplyLoop(old_f,
                         written \o read_file_bytes(old_f, Abs(v) * ROLLING_WINDOW_SIZE,
                                                    ROLLING_WINDOW_SIZE),
                         file_patch, p)
                  ELSE ApplyLoop(old_f, written \o Slice(file_patch, p, p + v),
                                 file_patch, p + v)

ApplyPatchChunk(old_f, file_patch) == ApplyLoop(old_f, <<>>, file_patch, 0)

\* ------------------------------------------------------------------------
\* Paths and the filesystem
\* ------------------------------------------------------------------------
\* An absolute path is the sequence of its components ("/" is <<>>).  A
\* relative path from the network is its text split at "/": "a/b" is
\* <<"a", "b">>, "/etc" is <<"", "etc">>, "" is <<"">>.
\* A filesystem is a function from the paths that exist to their entries.
SYNC_TARGET_DIRECTORY == <<"srv">>

DirEntry == [kind |-> "dir", data |-> <<>>, mtime |-> 0]
FileEntry(data, mtime) == [kind |-> "file", data |-> data, mtime |-> mtime]

Front(p) == SubSeq(p, 1, Len(p) - 1)
Last(p) == p[Len(p)]
IsPrefix(p, q) == Len(p) <= Len(q) /\ SubSeq(q, 1, Len(p)) = p

Exists(f, p) == p \in DOMAIN f
IsDir(f, p) == Exists(f, p) /\ f[p].kind = "dir"
IsFile(f, p) == Exists(f, p) /\ f[p].kind = "file"

\* os.remove of a file, shutil.rmtree of a directory: p and all below it
RemoveTree(f, p) == [q \in {x \in DOMAIN f : ~IsPrefix(p, x)} |-> f[q]]

PutEntry(f, p, e) == [q \in DOMAIN f \cup {p} |-> IF q = p THEN e ELSE f[q]]

\* os.rename(from, to) of an entry and all below it
MoveTree(f, from, to) ==
  LET kept == {x \in DOMAIN f : ~IsPrefix(from, x) /\ ~IsPrefix(to, x)}
      moved == {x \in DOMAIN f : IsPrefix(from, x)}
      dest(x) == to \o SubSeq(x, Len(from) + 1, Len(x))
  IN [q \in kept \cup {dest(x) : x \in moved} |->
        IF q \in kept THEN f[q]
        ELSE f[CHOOSE x \in moved : dest(x) = q]]

IsAbsolute(rel) == Len(rel) >= 2 /\ rel[1] = ""

\* os.path.join(directory, rel)
PathJoin(dir, rel) == IF IsAbsolute(rel) THEN rel ELSE dir \o rel

\* os.path.normpath of an absolute path
RECURSIVE NormLoop(_, _)
NormLoop(done, rest) ==
  IF rest = <<>> THEN done
  ELSE LET c == Head(rest)
       IN IF c = "" \/ c = "." THEN NormLoop(done, Tail(rest))
          ELSE IF c = ".." THEN NormLoop(Front(done), Tail(rest))
          ELSE NormLoop(Append(done, c), Tail(rest))

NormPath(p) == NormLoop(<<>>, p)

\* os.path.commonpath([p, q]): the longest common prefix, by components
RECURSIVE CommonPath(_, _)
CommonPath(p, q) ==
  IF p = <<>> \/ q = <<>> \/ Head(p) # Head(q) THEN <<>>
  ELSE <<Head(p)>> \o CommonPath(Tail(p), Tail(q))

\* a mutant: the joined path is checked before it is normalized
check_path_unnormalized(untrusted_relative_path, trusted_directory) ==
  LET joined == PathJoin(trusted_directory, untrusted_relative_path)
  IN [ok |-> CommonPath(joined, trusted_directory) = trusted_directory,
      path |-> NormPath(joined)]

\* check_path_inside_directory; ok is FALSE where the assertion fails
check_path_inside_directory(untrusted_relative_path, trusted_directory) ==
  LET normalized_directory == NormPath(trusted_directory)
      normalized_path == NormPath(PathJoin(normalized_directory, untrusted_relative_path))
  IN [ok |-> CommonPath(normalized_path, normalized_directory) = normalized_directory,
      path |-> normalized_path]

\* normalized_path + patched_file_suffix: the suffix extends the last component
SidePath(p, sfx) == IF p = <<>> THEN <<sfx>> ELSE Append(Front(p), Last(p) \o sfx)

\* ------------------------------------------------------------------------
\* Receiver: the request handlers.  Each yields the filesystem it leaves and
\* ok: TRUE where respond_json(status="success") is reached, FALSE where an
\* exception ends the handler first (the client then sees a failed call).
\* ------------------------------------------------------------------------
Served(f) == [fs |-> f, ok |-> TRUE]
Raised(f) == [fs |-> f, ok |-> FALSE]

\* makedirs_force.  After the recursive call the code reads the undefined name
\* curdir (line 56): a NameError, whatever the call did.
RECURSIVE makedirs_force(_, _)
makedirs_force(f, name) ==
  IF name = <<>> THEN Served(f)
  ELSE IF ~IsDir(f, Front(name))
  THEN LET f1 == IF Exists(f, Front(name)) THEN RemoveTree(f, Front(name)) ELSE f
       IN Raised(makedirs_force(f1, Front(name)).fs)
  ELSE IF Exists(f, name) THEN [fs |-> f, ok |-> IsDir(f, name)]
  ELSE Served(PutEntry(f, name, DirEntry))

\* POST /create_directory/<rel>
do_create_directory(f, rel) ==
  LET c == check_path_inside_directory(rel, SYNC_TARGET_DIRECTORY)
  IN IF ~c.ok THEN Raised(f) ELSE makedirs_force(f, c.path)

\* POST /create_or_append_file/<rel>
do_create_or_append_file(f, rel, body, now) ==
  LET c == check_path_inside_directory(rel, SYNC_TARGET_DIRECTORY)
      f1 == IF IsDir(f, c.path) THEN RemoveTree(f, c.path) ELSE f
      before == IF IsFile(f1, c.path) THEN f1[c.path].data ELSE <<>>
      stamp == IF IsFile(f1, c.path) /\ body = <<>> THEN f1[c.path].mtime ELSE now
  IN IF ~c.ok THEN Raised(f)
     ELSE IF c.path = <<>> \/ ~IsDir(f1, Front(c.path)) THEN Raised(f1)
     ELSE Served(PutEntry(f1, c.path, FileEntry(before \o body, stamp)))

\* a receiver that writes each patch chunk over the target file itself
do_create_or_append_patch_in_place(f, sfx, rel, file_patch, now) ==
  LET c == check_path_inside_directory(rel, SYNC_TARGET_DIRECTORY)
      r == ApplyPatchChunk(f[c.path].data, file_patch)
  IN IF ~c.ok THEN Raised(f)
     ELSE IF ~IsFile(f, c.path) THEN Raised(f)
     ELSE [fs |-> PutEntry(PutEntry(f, c.path, FileEntry(r.written, now)),
                           SidePath(c.path, sfx), FileEntry(r.written, now)),
           ok |-> r.ok]

\* POST /create_or_append_patch/<suffix>/<rel>
do_create_or_append_patch(f, sfx, rel, file_patch, now) ==
  LET c == check_path_inside_directory(rel, SYNC_TARGET_DIRECTORY)
      side == SidePath(c.path, sfx)
      before == IF IsFile(f, side) THEN f[side].data ELSE <<>>
      r == ApplyPatchChunk(f[c.path].data, file_patch)
  IN IF ~c.ok THEN Raised(f)
     ELSE IF ~IsFile(f, c.path) \/ IsDir(f, side) THEN Raised(f)
     ELSE [fs |-> PutEntry(f, side, FileEntry(before \o r.written, now)), ok |-> r.ok]

SetMtime(f, p, t) == [f EXCEPT ![p].mtime = t]

\* a receiver whose finish_patch stamps the target and leaves the side file
\* where it is
do_finish_patch_keeping_target(f, sfx, rel, modified_time) ==
  LET c == check_path_inside_directory(rel, SYNC_TARGET_DIRECTORY)
  IN IF ~c.ok THEN Raised(f)
     ELSE IF ~Exists(f, SidePath(c.path, sfx)) \/ ~Exists(f, c.path) THEN Raised(f)
     ELSE Served(SetMtime(f, c.path, modified_time))

\* POST /finish_patch/<suffix>/<rel>
do_finish_patch(f, sfx, rel, modified_time) ==
  LET c == check_path_inside_directory(rel, SYNC_TARGET_DIRECTORY)
      side == SidePath(c.path, sfx)
      below == {x \in DOMAIN f : IsPrefix(c.path, x) /\ x # c.path}
  IN IF ~c.ok THEN Raised(f)
     ELSE IF ~Exists(f, side) THEN Raised(f)
     ELSE IF side = c.path THEN Served(SetMtime(f, c.path, modified_time))
     ELSE IF IsFile(f, side) /\ IsDir(f, c.path) THEN Raised(f)
     ELSE IF IsDir(f, side) /\ (IsFile(f, c.path) \/ below # {}) THEN Raised(f)
     ELSE Served(SetMtime(MoveTree(f, side, c.path), c.path, modified_time))

\* POST /update_file_mtime/<rel>
do_update_file_mtime(f, rel, modified_time) ==
  LET c == check_path_inside_directory(rel, SYNC_TARGET_DIRECTORY)
  IN IF ~c.ok THEN Raised(f)
     ELSE IF ~Exists(f, c.path) THEN Raised(f)
     ELSE Served(SetMtime(f, c.path, modified_time))

\* POST /delete_file_or_directory/<rel>
do_delete_file_or_directory(f, rel) ==
  LET c == check_path_inside_directory(rel, SYNC_TARGET_DIRECTORY)
  IN IF ~c.ok THEN Raised(f)
     ELSE IF ~Exists(f, c.path) THEN Raised(f)
     ELSE Served(RemoveTree(f, c.path))

\* GET /block_checksums/<rel>
do_block_checksums(f, rel) ==
  LET c == check_path_inside_directory(rel, SYNC_TARGET_DIRECTORY)
  IN IF ~c.ok \/ IsDir(f, c.path) THEN [ok |-> FALSE, result |-> EmptyChecksums]
     ELSE IF Exists(f, c.path) THEN [ok |-> TRUE, result |-> BlockChecksumsOf(f[c.path].data)]
     ELSE [ok |-> TRUE, result |-> EmptyChecksums]

\* the leaf identifiers: [name, size, mtime_ns] or [name, sha256]
size_and_mtime_identifier(name, e) ==
  [name |-> name, size |-> Len(e.data), mtime |-> e.mtime, digest |-> <<>>]
checksum_identifier(name, e) ==
  [name |-> name, size |-> -1, mtime |-> -1, digest |-> SHA256(e.data)]
\* an identifier made of the name and the size alone
IdentifierSizeOnly(checksum, name, e) ==
  [name |-> name, size |-> Len(e.data), mtime |-> -1, digest |-> <<>>]

Identifier(checksum, name, e) ==
  IF checksum THEN checksum_identifier(name, e) ELSE size_and_mtime_identifier(name, e)

NoIdentifier == [name |-> "", size |-> -1, mtime |-> -1, digest |-> <<>>]

\* recursive_list(current_path, ...): the nested dictionaries, kept flat as a
\* function from the paths relative to current_path
recursive_list(f, current_path, checksum) ==
  LET rel(x) == SubSeq(x, Len(current_path) + 1, Len(x))
      below == {x \in DOMAIN f : IsPrefix(current_path, x) /\ x # current_path}
  IN [p \in {rel(x) : x \in below} |->
        LET e == f[current_path \o p]
        IN IF e.kind = "dir" THEN [kind |-> "dir", id |-> NoIdentifier]
           ELSE [kind |-> "file", id |-> Identifier(checksum, Last(p), e)]]

\* GET /directory_tree_size_and_mtime, /directory_tree_checksum
do_directory_tree(f, checksum) ==
  IF IsDir(f, SYNC_TARGET_DIRECTORY)
  THEN [ok |-> TRUE, result |-> recursive_list(f, SYNC_TARGET_DIRECTORY, checksum)]
  ELSE [ok |-> FALSE, result |-> <<>>]

\* ------------------------------------------------------------------------
\* Sender: the planner
\* ------------------------------------------------------------------------
\* The source tree is a function from the paths below SYNC_SOURCE (<<>> is
\* SYNC_SOURCE itself) to entries.  os.scandir and set iteration give no
\* order; the model fixes one.
SetToSeq(S) == CHOOSE q \in [1..Cardinality(S) -> S] : {q[i] : i \in 1..Cardinality(S)} = S

ChildNames(t, p) == {Last(x) : x \in {y \in DOMAIN t : Len(y) = Len(p) + 1 /\ IsPrefix(p, y)}}

\* os.path.relpath(source_path, start=original_source_path), split at "/"
RelPath(p) == IF p = <<>> THEN <<".">> ELSE p

PlanAction(action, path) == [action |-> action, path |-> path]

\* what recursive_diff is handed as destination_tree for the source path p:
\* the snapshot's value at p, or None
DestinationAt(dtree, p, present) ==
  IF ~present THEN "none"
  ELSE IF p = <<>> THEN "dir"
  ELSE IF p \in DOMAIN dtree THEN dtree[p].kind
  ELSE "none"

\* os.path.basename(path) of a source path; the name of SYNC_SOURCE is not part
\* of the tree
BaseName(p) == IF p = <<>> THEN "" ELSE Last(p)

RECURSIVE recursive_diff(_, _, _, _, _)
RECURSIVE DiffEntries(_, _, _, _, _, _)

\* a planner that leaves the destination's extra entries alone
recursive_diff_keeping_leftovers(source, p, dtree, present, checksum) ==
  LET relative_path == RelPath(p)
      there == DestinationAt(dtree, p, present)
      entries == SetToSeq(ChildNames(source, p))
  IN IF source[p].kind = "dir"
     THEN IF there = "dir"
          THEN DiffEntries(source, p, entries, dtree, TRUE, checksum)
          ELSE <<PlanAction("create_directory", relative_path)>>
               \o DiffEntries(source, p, entries, dtree, FALSE, checksum)
     ELSE IF there = "none" THEN <<PlanAction("create_file", relative_path)>>
     ELSE IF there = "dir"
          THEN <<PlanAction("delete", relative_path), PlanAction("create_file", relative_path)>>
     ELSE IF Identifier(checksum, BaseName(p), source[p]) # dtree[p].id
          THEN <<PlanAction("patch_file", relative_path)>>
     ELSE <<>>

\* the loop over the scanned entries of the source directory p
DiffEntries(source, p, names, dtree, present, checksum) ==
  IF names = <<>> THEN <<>>
  ELSE recursive_diff(source, Append(p, Head(names)), dtree, present, checksum)
       \o DiffEntries(source, p, Tail(names), dtree, present, checksum)

recursive_diff(source, p, dtree, present, checksum) ==
  LET relative_path == RelPath(p)
      there == DestinationAt(dtree, p, present)
      entries == SetToSeq(ChildNames(source, p))
  IN IF source[p].kind = "dir"
     THEN IF there = "dir"
          THEN LET leftover_destination_entries ==
                     SetToSeq(ChildNames(dtree, p) \ ChildNames(source, p))
               IN DiffEntries(source, p, entries, dtree, TRUE, checksum)
                  \o [i \in 1..Len(leftover_destination_entries) |->
                        PlanAction("delete",
                                   Append(relative_path, leftover_destination_entries[i]))]
          ELSE <<PlanAction("create_directory", relative_path)>>
               \o DiffEntries(source, p, entries, dtree, FALSE, checksum)
     ELSE IF there = "none" THEN <<PlanAction("create_file", relative_path)>>
     ELSE IF there = "dir"
          THEN <<PlanAction("delete", relative_path), PlanAction("create_file", relative_path)>>
     ELSE IF Identifier(checksum, BaseName(p), source[p]) # dtree[p].id
          THEN <<PlanAction("patch_file", relative_path)>>
     ELSE <<>>

\* the four lists the driver fills from the planner's output
PathsOf(plan, action) ==
  LET sel == SelectSeq(plan, LAMBDA x : x.action = action)
  IN [i \in 1..Len(sel) |-> sel[i].path]

\* a mutant: files are created before anything is deleted
LoopOrderCreateFirst == <<"create_directory", "create_file", "delete", "patch_file">>

\* the order of the driver's four loops
LoopOrder == <<"delete", "create_directory", "create_file", "patch_file">>

\* the next loop iteration at or after iteration i of loop k, or the end
RECURSIVE Settle(_, _, _)
Settle(plan, k, i) ==
  IF k > Len(LoopOrder) THEN [pc |-> "done", i |-> 1]
  ELSE IF i <= Len(PathsOf(plan, LoopOrder[k])) THEN [pc |-> LoopOrder[k], i |-> i]
  ELSE Settle(plan, k + 1, 1)

LoopIndex(pc) == CHOOSE k \in 1..Len(LoopOrder) : LoopOrder[k] = pc

\* os.path.normpath(os.path.join(SYNC_SOURCE, path)) as a path of the source tree
SourcePath(rel) == NormPath(rel)

\* ".femtosync-tmp-" + str(uuid.uuid4()): a name no earlier call returned
TargetPatchFile(n) == ".femtosync-tmp-" \o ToString(n)

\* ------------------------------------------------------------------------
\* Receiver: do_POST, the dispatch on the request path
\* ------------------------------------------------------------------------
Request(ep, sfx, rel, body, mtime) ==
  [ep |-> ep, sfx |-> sfx, rel |-> rel, body |-> body, mtime |-> mtime]

\* an endpoint the chain of tests does not know is answered 404, status "error"
do_POST(f, q, now) ==
  CASE q.ep = "create_directory" -> do_create_directory(f, q.rel)
    [] q.ep = "create_or_append_file" -> do_create_or_append_file(f, q.rel, q.body, now)
    [] q.ep = "create_or_append_patch" -> do_create_or_append_patch(f, q.sfx, q.rel, q.body, now)
    [] q.ep = "finish_patch" -> do_finish_patch(f, q.sfx, q.rel, q.mtime)
    [] q.ep = "update_file_mtime" -> do_update_file_mtime(f, q.rel, q.mtime)
    [] q.ep = "delete_file_or_directory" -> do_delete_file_or_directory(f, q.rel)
    [] OTHER -> Raised(f)

\* the endpoints the chains of tests of do_GET and do_POST route to a handler
RoutedEndpoints ==
  {"block_checksums", "create_directory", "create_or_append_file",
   "create_or_append_patch", "finish_patch", "update_file_mtime",
   "delete_file_or_directory"}

\* what the client receives for request q when the handler left result r:
\* respond_json(status="success") at the handler's end; the 404 answer with
\* status "error" for a path no test routes; nothing when an exception left
\* the handler, which no code catches before the connection is closed
ResponseTo(q, r) ==
  IF r.ok THEN "success"
  ELSE IF q.ep \in RoutedEndpoints THEN "none"
  ELSE "error"

\* ------------------------------------------------------------------------
\* Trees the runs start from
\* ------------------------------------------------------------------------
Names == {"a", "b"}
MTimes == 1..MaxMTime
\* the receiver's clock when it writes a file
Now == MaxMTime

\* a file longer than one upload chunk
LongContent == [i \in 1..(MAX_CHUNK_SIZE + 1) |-> (i * i) % 3]
FileContents == {<<>>, <<1, 2, 0>>, LongContent}
FileEntries == {FileEntry(d, t) : d \in FileContents, t \in MTimes}

RelUniverse == {<<n>> : n \in Names} \cup {<<n, m>> : n \in Names, m \in Names}
TreeShapes == {S \in SUBSET RelUniverse :
                 /\ Cardinality(S) <= MaxEntries
                 /\ \A p \in S : Len(p) > 1 => Front(p) \in S}
TreesOver(files) ==
  UNION {{t \in [S -> files \cup {DirEntry}] :
            \A p \in S : Len(p) > 1 => t[Front(p)].kind = "dir"} : S \in TreeShapes}

\* a tree under SYNC_SOURCE
AsSource(t) == [p \in {<<>>} \cup DOMAIN t |-> IF p = <<>> THEN DirEntry ELSE t[p]]

\* a tree under SYNC_TARGET_DIRECTORY, with a file outside it
OutsideFile == <<"etc">>
Mounted(t) ==
  LET root == SYNC_TARGET_DIRECTORY
  IN [q \in {<<>>, root, OutsideFile} \cup {root \o p : p \in DOMAIN t} |->
        IF q \in {<<>>, root} THEN DirEntry
        ELSE IF q = OutsideFile THEN FileEntry(<<1>>, 1)
        ELSE t[SubSeq(q, Len(root) + 1, Len(q))]]

\* ------------------------------------------------------------------------
\* State
\* ------------------------------------------------------------------------
VARIABLES
  p_pc,       \* patch pipeline: "gen", "send", "done" ("off" in other specifications)
  p_old,      \* the destination's bytes
  p_new,      \* the source's bytes
  p_gen,      \* the generator's state
  p_chunks,   \* chunks not yet sent
  p_side,     \* the side file's bytes
  fs,         \* the receiver's filesystem
  fs0,        \* the receiver's filesystem when the sender started
  src,        \* the sender's source tree
  checksum,   \* args.checksum
  s_pc,       \* the sender: "start", a loop of LoopOrder, "done", "crashed"
  s_i,        \* the iteration of the loop
  s_step,     \* patch loop: "begin" before block_checksums, "chunks" after
  s_off,      \* create loop: bytes of the source file uploaded
  s_chunks,   \* patch loop: chunks not yet sent
  uuid,       \* side-file names drawn so far
  plan,       \* what recursive_diff yielded
  log,        \* the api_calls made, in order
  faults,     \* transport failures so far
  run,        \* which run of the sender this is
  r_last,     \* an arbitrary client's last request and its outcome
  r_n         \* requests the arbitrary client has sent

pvars == <<p_pc, p_old, p_new, p_gen, p_chunks, p_side>>
svars == <<src, checksum, fs0, s_pc, s_i, s_step, s_off, s_chunks, uuid, plan, log, faults, run>>
rvars == <<r_last, r_n>>

vars == <<pvars, fs, svars, rvars>>

NoRequest == [ep |-> "none", sfx |-> "", rel |-> <<>>, ok |-> FALSE,
              was |-> "none", above |-> FALSE, answer |-> "none", body |-> <<>>]

PatchOff ==
  /\ p_pc = "off" /\ p_old = <<>> /\ p_new = <<>> /\ p_chunks = <<>> /\ p_side = <<>>
  /\ p_gen = GenInit(<<>>, EmptyChecksums)

SenderOff ==
  /\ src = AsSource(<<>>) /\ checksum = FALSE /\ s_pc = "off" /\ s_i = 1
  /\ s_step = "begin" /\ s_off = 0 /\ s_chunks = <<>> /\ uuid = 0
  /\ plan = <<>> /\ log = <<>> /\ faults = 0 /\ run = 1

ClientOff == r_last = NoRequest /\ r_n = 0

\* ------------------------------------------------------------------------
\* The patch pipeline on two byte strings
\* ------------------------------------------------------------------------
PatchInit ==
  /\ p_old \in ByteSeqs
  /\ p_new \in ByteSeqs
  /\ p_pc = "gen"
  /\ p_gen = GenInit(p_new, BlockChecksumsOf(p_old))
  /\ p_chunks = <<>>
  /\ p_side = <<>>
  /\ fs = Mounted(<<>>) /\ fs0 = fs
  /\ SenderOff
  /\ ClientOff

\* one iteration of generate_file_patch's loop
PatchGenStep ==
  /\ p_pc = "gen"
  /\ p_gen.window # <<>>
  /\ p_gen' = GenStep(p_gen, p_new, BlockChecksumsOf(p_old))
  /\ UNCHANGED <<p_pc, p_old, p_new, p_chunks, p_side, fs, svars, rvars>>

\* the generator ends; the framer packs what it yielded
PatchFrame ==
  /\ p_pc = "gen"
  /\ p_gen.window = <<>>
  /\ p_gen' = FlushLiteral(p_gen)
  /\ p_chunks' = chunk_file_patch(p_gen'.out, MAX_CHUNK_SIZE)
  /\ p_pc' = IF p_chunks' = <<>> THEN "done" ELSE "send"
  /\ UNCHANGED <<p_old, p_new, p_side, fs, svars, rvars>>

\* the receiver applies the next chunk to the side file
PatchApply ==
  /\ p_pc = "send"
  /\ LET r == ApplyPatchChunk(p_old, Head(p_chunks))
     IN /\ p_side' = p_side \o r.written
        /\ p_chunks' = Tail(p_chunks)
        /\ p_pc' = IF ~r.ok THEN "failed" ELSE IF p_chunks' = <<>> THEN "done" ELSE "send"
  /\ UNCHANGED <<p_old, p_new, p_gen, fs, svars, rvars>>

PatchNext == PatchGenStep \/ PatchFrame \/ PatchApply

SpecPatch == PatchInit /\ [][PatchNext]_vars

\* the stream applied item by item: Copy(k) appends old[k*B : k*B+B]
RECURSIVE ApplyItems(_, _)
ApplyItems(old, items) ==
  IF items = <<>> THEN <<>>
  ELSE (IF Head(items).t = "copy" THEN Block(old, Head(items).k) ELSE Head(items).d)
       \o ApplyItems(old, Tail(items))

\* C1: for any old and new, the Copy/Literal stream generated from new against
\* the block-checksum table of old, applied to old, yields exactly new (item by
\* item, and through the framer and the receiver's parsing loop)
C1_PatchRoundTrip ==
  p_pc = "done" =>
    /\ ApplyItems(p_old, p_gen.out) = p_new
    /\ p_side = p_new
    /\ p_gen.out = generate_file_patch(p_new, BlockChecksumsOf(p_old))

\* a run that copied a block, carried literal bytes and needed several chunks,
\* on an old file whose last block is short
C1_Witness ==
  /\ p_pc = "done"
  /\ Len(p_old) % ROLLING_WINDOW_SIZE # 0
  /\ Len(p_new) % ROLLING_WINDOW_SIZE # 0
  /\ \E i \in 1..Len(p_gen.out) : p_gen.out[i].t = "copy" /\ p_gen.out[i].k > 0
  /\ \E i \in 1..Len(p_gen.out) : p_gen.out[i].t = "literal"
  /\ p_side = p_new
  /\ p_new # p_old

\* ------------------------------------------------------------------------
\* The framer on an arbitrary instruction stream
\* ------------------------------------------------------------------------
StreamItems ==
  {Copy(0), Copy(1), Copy(2), Literal(<<>>), Literal(<<1>>), Literal(<<2, 0, 1, 2>>)}
Streams == UNION {[1..n -> StreamItems] : n \in 0..MaxItems}
StreamOldFile == <<1, 2, 0, 1, 2>>

ChunkInit ==
  /\ p_gen \in {[GenInit(<<>>, EmptyChecksums) EXCEPT !.out = s] : s \in Streams}
  /\ p_old = StreamOldFile
  /\ p_new = <<>>
  /\ p_pc = "frame"
  /\ p_chunks = <<>>
  /\ p_side = <<>>
  /\ fs = Mounted(<<>>) /\ fs0 = fs
  /\ SenderOff
  /\ ClientOff

\* the framer packs the stream
ChunkFrame ==
  /\ p_pc = "frame"
  /\ p_chunks' = chunk_file_patch(p_gen.out, MAX_CHUNK_SIZE)
  /\ p_pc' = IF p_chunks' = <<>> THEN "done" ELSE "send"
  /\ UNCHANGED <<p_old, p_new, p_gen, p_side, fs, svars, rvars>>

ChunkNext == ChunkFrame \/ PatchApply

SpecChunk == ChunkInit /\ [][ChunkNext]_vars

\* a chunk read item by item: whole is FALSE when a header or a payload is
\* cut by the chunk's end, or a literal header is not positive
RECURSIVE DecodeChunk(_, _)
DecodeChunk(c, pos) ==
  IF pos >= Len(c) THEN [items |-> <<>>, whole |-> TRUE]
  ELSE IF pos + HEADER_SIZE > Len(c) THEN [items |-> <<>>, whole |-> FALSE]
  ELSE LET v == Unpack(Slice(c, pos, pos + HEADER_SIZE))
           body == pos + HEADER_SIZE
       IN IF v <= 0
          THEN LET r == DecodeChunk(c, body)
               IN [items |-> <<Copy(-v)>> \o r.items, whole |-> r.whole]
          ELSE IF body + v > Len(c) THEN [items |-> <<>>, whole |-> FALSE]
          ELSE LET r == DecodeChunk(c, body + v)
               IN [items |-> <<Literal(Slice(c, body, body + v))>> \o r.items,
                   whole |-> r.whole]

RECURSIVE DecodeChunks(_)
DecodeChunks(chunks) ==
  IF chunks = <<>> THEN <<>>
  ELSE DecodeChunk(Head(chunks), 0).items \o DecodeChunks(Tail(chunks))

\* a stream with its neighbouring literals joined and its empty ones dropped
RECURSIVE JoinLiterals(_)
JoinLiterals(items) ==
  IF items = <<>> THEN <<>>
  ELSE IF Head(items).t = "literal" /\ Head(items).d = <<>> THEN JoinLiterals(Tail(items))
  ELSE IF Len(items) >= 2 /\ Head(items).t = "literal" /\ items[2].t = "literal"
  THEN JoinLiterals(<<Literal(Head(items).d \o items[2].d)>> \o Tail(Tail(items)))
  ELSE <<Head(items)>> \o JoinLiterals(Tail(items))

FramedStream == chunk_file_patch(p_gen.out, MAX_CHUNK_SIZE)

FullWindow == p_pc = "gen" /\ Len(p_gen.window) = ROLLING_WINDOW_SIZE /\ ~p_gen.eof

\* the destination's full blocks that hold the window's bytes
FullBlocksLikeWindow ==
  {k \in 0..(BlockCount(p_old) - 1) :
     Len(Block(p_old, k)) = ROLLING_WINDOW_SIZE /\ Block(p_old, k) = p_gen.window}

\* C20: on a full window, after any number of rolls that each read a byte,
\* the updated a and b are the sums recomputed over the window, so the rolled
\* checksum is the one the receiver computes for the same bytes; and when a
\* full destination block holds the window's bytes, the generator's next step
\* yields a Copy of such a block at this position and does not roll
C20_RolledChecksumExact ==
  FullWindow =>
    /\ p_gen.a = Sum(p_gen.window)
    /\ p_gen.b = WeightedSum(p_gen.window)
    /\ \A k \in FullBlocksLikeWindow :
         RollingChecksum(p_gen.a, p_gen.b) = BlockChecksumsOf(p_old).rollable[k + 1]
    /\ FullBlocksLikeWindow # {} =>
         LET next == GenStep(p_gen, p_new, BlockChecksumsOf(p_old))
         IN /\ Len(next.out) > 0
            /\ next.out[Len(next.out)].t = "copy"
            /\ next.out[Len(next.out)].k \in FullBlocksLikeWindow
            /\ next.lit = <<>>

\* a full window reached by two rolls that holds the bytes of a full block
\* of the destination other than its first
C20_Witness ==
  /\ FullWindow
  /\ Len(p_gen.lit) >= 2
  /\ \E k \in FullBlocksLikeWindow : k > 0

\* the values of the 8-byte headers of a chunk, walked as the receiver walks it
RECURSIVE HeaderValues(_, _)
HeaderValues(c, pos) ==
  IF pos + HEADER_SIZE > Len(c) THEN <<>>
  ELSE LET v == Unpack(Slice(c, pos, pos + HEADER_SIZE))
       IN <<v>> \o HeaderValues(c, pos + HEADER_SIZE + (IF v > 0 THEN v ELSE 0))

RECURSIVE HeadersOf(_)
HeadersOf(chunks) ==
  IF chunks = <<>> THEN <<>>
  ELSE HeaderValues(Head(chunks), 0) \o HeadersOf(Tail(chunks))

CopyHeaders(items) ==
  LET copies == SelectSeq(items, LAMBDA x : x.t = "copy")
  IN [i \in 1..Len(copies) |-> -copies[i].k]

\* C13: the generator yields no empty Literal and the framer writes no literal
\* header of length 0: the headers of value 0 or less in the chunks are, in
\* order, the stream's Copy items, Copy(0) as the value 0; and the receiver
\* serves a header of value 0 by writing block 0 of the old file
C13_ZeroHeaderIsCopyZero ==
  /\ \A i \in 1..Len(p_gen.out) : p_gen.out[i].t = "literal" => p_gen.out[i].d # <<>>
  /\ SelectSeq(HeadersOf(FramedStream), LAMBDA v : v <= 0) = CopyHeaders(p_gen.out)
  /\ Unpack(Pack(-Copy(0).k)) = 0
  /\ ApplyPatchChunk(p_old, Pack(-Copy(0).k)).written = Block(p_old, 0)
  /\ p_pc = "done" => p_side = p_new

\* a finished run whose stream holds Copy(0) behind a literal
C13_Witness ==
  /\ p_pc = "done"
  /\ \E i \in 2..Len(p_gen.out) : p_gen.out[i] = Copy(0) /\ p_gen.out[i - 1].t = "literal"
  /\ \E i \in 1..Len(HeadersOf(FramedStream)) : HeadersOf(FramedStream)[i] = 0
  /\ Block(p_old, 0) # <<>>

\* ------------------------------------------------------------------------
\* The sender's driver against the receiver
\* ------------------------------------------------------------------------
SyncInit ==
  /\ src \in {AsSource(t) : t \in TreesOver(FileEntries)}
  /\ fs \in {Mounted(t) : t \in TreesOver(FileEntries)}
  /\ fs0 = fs
  /\ checksum \in BOOLEAN
  /\ s_pc = "start" /\ s_i = 1 /\ s_step = "begin" /\ s_off = 0 /\ s_chunks = <<>>
  /\ uuid = 0 /\ plan = <<>> /\ log = <<>> /\ faults = 0 /\ run = 1
  /\ PatchOff
  /\ ClientOff

\* what can become of one api_call: served and answered; lost before the
\* receiver saw it; served, with the response lost
Fates == IF faults < MaxFaults THEN {"ok", "lost", "dropped"} ELSE {"ok"}

CurrentPath == PathsOf(plan, s_pc)[s_i]
SourceFile == src[SourcePath(CurrentPath)]

\* api_call(...) returned (ok) or raised, after the handler left result r
Called(ep, sfx, rel, r, fate, left) ==
  /\ fs' = IF fate = "lost" THEN fs ELSE r.fs
  /\ faults' = IF fate = "ok" THEN faults ELSE faults + 1
  /\ log' = Append(log, [ep |-> ep, sfx |-> sfx, rel |-> rel, loop |-> s_pc, i |-> s_i,
                         served |-> fate # "lost" /\ r.ok, ok |-> fate = "ok" /\ r.ok,
                         left |-> left, fate |-> fate, run |-> run])

\* the loop goes on to its next path, or the next loop starts
NextFile ==
  LET n == Settle(plan, LoopIndex(s_pc), s_i + 1)
  IN s_pc' = n.pc /\ s_i' = n.i /\ s_step' = "begin" /\ s_off' = 0 /\ s_chunks' = <<>>

\* a mutant: a failed chunk upload does not end the file's upload
AfterChunkKeepGoing(ok) == "continue"

\* the try block around a file's uploads: an api_call that raises ends it
AfterChunk(ok) == IF ok THEN "continue" ELSE "abandon"

\* destination_tree = api_call("/directory_tree_..."), then the planner runs
SenderFetchTree ==
  /\ s_pc = "start"
  /\ \E fate \in Fates \ {"dropped"} :
       LET r == do_directory_tree(fs, checksum)
           ok == fate = "ok" /\ r.ok
           found == recursive_diff(src, <<>>, r.result, TRUE, checksum)
           n == Settle(found, 1, 1)
       IN /\ Called("directory_tree", "", <<>>, [fs |-> fs, ok |-> r.ok], fate, 0)
          /\ plan' = IF ok THEN found ELSE <<>>
          /\ s_pc' = IF ok THEN n.pc ELSE "crashed"
          /\ s_i' = IF ok THEN n.i ELSE 1
  /\ UNCHANGED <<pvars, rvars, src, checksum, fs0, s_step, s_off, s_chunks, uuid, run>>

\* one iteration of the delete loop: a failure is printed and the loop goes on
SenderDelete ==
  /\ s_pc = "delete"
  /\ \E fate \in Fates :
       LET q == Request("delete_file_or_directory", "", CurrentPath, <<>>, 0)
       IN Called(q.ep, "", q.rel, do_POST(fs, q, Now), fate, 0)
  /\ NextFile
  /\ UNCHANGED <<pvars, rvars, src, checksum, fs0, uuid, plan, run>>

\* one iteration of the create_directory loop: no try, a failure ends the run
SenderCreateDirectory ==
  /\ s_pc = "create_directory"
  /\ \E fate \in Fates :
       LET q == Request("create_directory", "", CurrentPath, <<>>, 0)
           r == do_POST(fs, q, Now)
       IN /\ Called(q.ep, "", q.rel, r, fate, 0)
          /\ IF fate = "ok" /\ r.ok THEN NextFile
             ELSE s_pc' = "crashed" /\ UNCHANGED <<s_i, s_step, s_off, s_chunks>>
  /\ UNCHANGED <<pvars, rvars, src, checksum, fs0, uuid, plan, run>>

\* create_file loop: the next chunk of the source file is uploaded
SenderCreateFileChunk ==
  /\ s_pc = "create_file"
  /\ s_off < Len(SourceFile.data)
  /\ \E fate \in Fates :
       LET buffer == read_file_bytes(SourceFile.data, s_off, MAX_CHUNK_SIZE)
           q == Request("create_or_append_file", "", CurrentPath, buffer, 0)
           r == do_POST(fs, q, Now)
       IN /\ Called(q.ep, "", q.rel, r, fate, Len(SourceFile.data) - s_off - Len(buffer))
          /\ IF AfterChunk(fate = "ok" /\ r.ok) = "continue"
             THEN s_off' = s_off + Len(buffer) /\ UNCHANGED <<s_pc, s_i, s_step, s_chunks>>
             ELSE NextFile
  /\ UNCHANGED <<pvars, rvars, src, checksum, fs0, uuid, plan, run>>

\* create_file loop: the source file is read to its end, the finishing call
SenderCreateFileFinish ==
  /\ s_pc = "create_file"
  /\ s_off >= Len(SourceFile.data)
  /\ \E fate \in Fates :
       LET q == Request("finish_create_file", "", CurrentPath, <<>>, SourceFile.mtime)
       IN Called(q.ep, "", q.rel, do_POST(fs, q, Now), fate, Len(SourceFile.data) - s_off)
  /\ NextFile
  /\ UNCHANGED <<pvars, rvars, src, checksum, fs0, uuid, plan, run>>

\* patch_file loop: a side-file name is drawn, the block checksums are fetched
\* and the patch is generated against them
SenderPatchChecksums ==
  /\ s_pc = "patch_file"
  /\ s_step = "begin"
  /\ uuid' = uuid + 1
  /\ \E fate \in Fates \ {"dropped"} :
       LET r == do_block_checksums(fs, CurrentPath)
           chunks == chunk_file_patch(generate_file_patch(SourceFile.data, r.result),
                                      MAX_CHUNK_SIZE)
       IN /\ Called("block_checksums", "", CurrentPath, [fs |-> fs, ok |-> r.ok], fate,
                    IF r.ok THEN Len(chunks) ELSE 0)
          /\ IF fate = "ok" /\ r.ok
             THEN s_chunks' = chunks /\ s_step' = "chunks" /\ UNCHANGED <<s_pc, s_i, s_off>>
             ELSE NextFile
  /\ UNCHANGED <<pvars, rvars, src, checksum, fs0, plan, run>>

\* patch_file loop: the next chunk of the patch is uploaded
SenderPatchChunk ==
  /\ s_pc = "patch_file"
  /\ s_step = "chunks"
  /\ s_chunks # <<>>
  /\ \E fate \in Fates :
       LET q == Request("create_or_append_patch", TargetPatchFile(uuid), CurrentPath,
                        Head(s_chunks), 0)
           r == do_POST(fs, q, Now)
       IN /\ Called(q.ep, q.sfx, q.rel, r, fate, Len(s_chunks) - 1)
          /\ IF AfterChunk(fate = "ok" /\ r.ok) = "continue"
             THEN s_chunks' = Tail(s_chunks) /\ UNCHANGED <<s_pc, s_i, s_step, s_off>>
             ELSE NextFile
  /\ UNCHANGED <<pvars, rvars, src, checksum, fs0, uuid, plan, run>>

\* patch_file loop: every chunk is uploaded, the finishing call
SenderPatchFinish ==
  /\ s_pc = "patch_file"
  /\ s_step = "chunks"
  /\ s_chunks = <<>>
  /\ \E fate \in Fates :
       LET q == Request("finish_patch", TargetPatchFile(uuid), CurrentPath, <<>>,
                        SourceFile.mtime)
       IN Called(q.ep, q.sfx, q.rel, do_POST(fs, q, Now), fate, Len(s_chunks))
  /\ NextFile
  /\ UNCHANGED <<pvars, rvars, src, checksum, fs0, uuid, plan, run>>

Next ==
  \/ SenderFetchTree
  \/ SenderDelete
  \/ SenderCreateDirectory
  \/ SenderCreateFileChunk
  \/ SenderCreateFileFinish
  \/ SenderPatchChecksums
  \/ SenderPatchChunk
  \/ SenderPatchFinish

Spec == SyncInit /\ [][Next]_vars

\* the sender has ended, by its last loop or by an uncaught exception, and is
\* started again on the same source against the same receiver
SenderRestart ==
  /\ s_pc \in {"done", "crashed"}
  /\ run < MaxRuns
  /\ run' = run + 1
  /\ fs0' = fs
  /\ s_pc' = "start" /\ s_i' = 1 /\ s_step' = "begin" /\ s_off' = 0 /\ s_chunks' = <<>>
  /\ plan' = <<>>
  /\ UNCHANGED <<pvars, rvars, fs, src, checksum, uuid, log, faults>>

ResumeNext == Next \/ SenderRestart

SpecResume == SyncInit /\ [][ResumeNext]_vars

\* the destination path a plan path names
TargetOf(rel) == SYNC_TARGET_DIRECTORY \o NormPath(rel)

\* the run ended past its last loop and no api_call failed in transport
CompleteRun == s_pc = "done" /\ faults = 0

\* the destination tree has the source's directories and files, every file
\* with the source's bytes and, under size+mtime identifiers, its mtime
DestinationEqualsSource ==
  LET root == SYNC_TARGET_DIRECTORY
      below == {SubSeq(x, Len(root) + 1, Len(x)) :
                  x \in {y \in DOMAIN fs : IsPrefix(root, y) /\ y # root}}
  IN /\ below = DOMAIN src \ {<<>>}
     /\ \A p \in below :
          /\ fs[root \o p].kind = src[p].kind
          /\ fs[root \o p].data = src[p].data
          /\ (src[p].kind = "file" /\ ~checksum) => fs[root \o p].mtime = src[p].mtime

\* C2: after one complete run with no transport failure the destination tree
\* equals the source tree
C2_DestinationEqualsSource == CompleteRun => DestinationEqualsSource

\* C3: after a complete run, the planner run again on the receiver's fresh
\* snapshot yields no action
C3_SecondPlanEmpty ==
  CompleteRun =>
    recursive_diff(src, <<>>, recursive_list(fs, SYNC_TARGET_DIRECTORY, checksum),
                   TRUE, checksum) = <<>>

PatchPaths == PathsOf(plan, "patch_file")

FinishServed(rel) ==
  \E j \in 1..Len(log) : log[j].ep = "finish_patch" /\ log[j].rel = rel /\ log[j].served

IsPrefixOf(a, b) == Len(a) <= Len(b) /\ SubSeq(b, 1, Len(a)) = a

SideFilesOf(rel) ==
  {x \in DOMAIN fs : \E n \in 1..uuid : x = SidePath(TargetOf(rel), TargetPatchFile(n))}

\* C5: the file a patch_file action names holds exactly what it held before
\* the run in every state up to a served finish_patch, whatever chunks were
\* applied and wherever the upload was abandoned, and from then on exactly the
\* source's bytes and mtime; what grows meanwhile is the side file
C5_PatchedFileNeverPartial ==
  \A k \in 1..Len(PatchPaths) :
    LET rel == PatchPaths[k]
    IN /\ IsFile(fs, TargetOf(rel))
       /\ IF FinishServed(rel)
          THEN /\ fs[TargetOf(rel)].data = src[SourcePath(rel)].data
               /\ fs[TargetOf(rel)].mtime = src[SourcePath(rel)].mtime
          ELSE fs[TargetOf(rel)] = fs0[TargetOf(rel)]
       /\ \A x \in SideFilesOf(rel) : IsPrefixOf(fs[x].data, src[SourcePath(rel)].data)

\* a patch abandoned after its first chunk: the side file holds a proper part
\* of the new bytes, the target its old bytes, and the sender has moved on
C5_Witness ==
  /\ s_pc = "done"
  /\ \E k \in 1..Len(PatchPaths) :
       LET rel == PatchPaths[k]
       IN /\ ~FinishServed(rel)
          /\ fs[TargetOf(rel)] = fs0[TargetOf(rel)]
          /\ fs0[TargetOf(rel)].data # <<>>
          /\ \E x \in SideFilesOf(rel) :
               fs[x].data # <<>> /\ fs[x].data # src[SourcePath(rel)].data

\* the place of a request in the order deletes, mkdirs, creates, patches
Rank(ep) ==
  CASE ep = "directory_tree" -> 0
    [] ep = "delete_file_or_directory" -> 1
    [] ep = "create_directory" -> 2
    [] ep \in {"create_or_append_file", "finish_create_file"} -> 3
    [] ep \in {"block_checksums", "create_or_append_patch", "finish_patch"} -> 4

GroupOf(rank) == <<"delete", "create_directory", "create_file", "patch_file">>[rank]

\* the paths of the requests of one group, in the order issued, each once
RECURSIVE Collapse(_)
Collapse(q) ==
  IF Len(q) <= 1 THEN q
  ELSE IF q[1] = q[2] THEN Collapse(Tail(q))
  ELSE <<q[1]>> \o Collapse(Tail(q))

IssuedPaths(rank) ==
  LET sel == SelectSeq(log, LAMBDA e : Rank(e.ep) = rank)
  IN Collapse([i \in 1..Len(sel) |-> sel[i].rel])

\* C6: the requests are issued deletes first, then create_directory, then the
\* file uploads, then the patches; inside each group the paths come in the
\* order the planner yielded them; so every delete of a path precedes any
\* other request for it
C6_PlanOrder ==
  /\ \A i \in 1..Len(log), j \in 1..Len(log) : i < j => Rank(log[i].ep) <= Rank(log[j].ep)
  /\ \A g \in 1..4 : IsPrefixOf(IssuedPaths(g), PathsOf(plan, GroupOf(g)))
  /\ \A i \in 1..Len(log), j \in 1..Len(log) :
       (Rank(log[j].ep) = 1 /\ Rank(log[i].ep) > 1
          /\ NormPath(log[i].rel) = NormPath(log[j].rel)) => j < i

\* a finished run whose planner yielded a create_directory before a delete,
\* and a delete and a create_file of one path
C6_Witness ==
  /\ s_pc = "done"
  /\ \E i \in 1..Len(plan), j \in 1..Len(plan) :
       i < j /\ plan[i].action = "create_directory" /\ plan[j].action = "delete"
  /\ \E i \in 1..Len(log), j \in 1..Len(log) :
       /\ log[i].ep = "delete_file_or_directory" /\ log[j].ep = "create_or_append_file"
       /\ NormPath(log[i].rel) = NormPath(log[j].rel)
  /\ \E i \in 1..Len(log) : log[i].ep = "create_directory"

IsFinish(e) == e.ep \in {"finish_create_file", "finish_patch"}
IsChunk(e) == e.ep \in {"create_or_append_file", "create_or_append_patch"}
SameFile(e, f) == e.loop = f.loop /\ e.i = f.i

\* C7: a finishing request is issued only when no content of the file is left
\* to send and every chunk request of the file returned success; after a chunk
\* request that failed, no finishing request follows for the file; so a served
\* finish_patch stamps the mtime on the complete bytes
C7_FinishAfterAllChunks ==
  /\ \A j \in 1..Len(log) :
       IsFinish(log[j]) =>
         /\ log[j].left = 0
         /\ \A i \in 1..Len(log) : (IsChunk(log[i]) /\ SameFile(log[i], log[j])) =>
              (i < j /\ log[i].ok)
  /\ \A i \in 1..Len(log) :
       (IsChunk(log[i]) /\ ~log[i].ok) =>
         \A j \in 1..Len(log) : SameFile(log[i], log[j]) => (j <= i /\ ~IsFinish(log[j]))
  /\ (log # <<>> /\ log[Len(log)].ep = "finish_patch" /\ log[Len(log)].served) =>
       fs[TargetOf(log[Len(log)].rel)].data = src[SourcePath(log[Len(log)].rel)].data

\* a finished run in which one file's second chunk failed and got no finishing
\* request, and another file got its finishing request after its chunk
C7_Witness ==
  /\ s_pc = "done"
  /\ \E i \in 1..Len(log) :
       /\ IsChunk(log[i]) /\ ~log[i].ok
       /\ \E h \in 1..Len(log) : h < i /\ IsChunk(log[h]) /\ SameFile(log[h], log[i]) /\ log[h].ok
  /\ \E j \in 1..Len(log) :
       /\ IsFinish(log[j])
       /\ \E i \in 1..Len(log) : i < j /\ IsChunk(log[i]) /\ SameFile(log[i], log[j])

\* C9: when the sender has completed a create_file action whose chunks were
\* all acknowledged, the destination file carries the source file's mtime
C9_CreatedFileMtime ==
  (log # <<>> /\ log[Len(log)].ep = "finish_create_file" /\ faults = 0
     /\ src[SourcePath(log[Len(log)].rel)].data # <<>>) =>
    /\ IsFile(fs, TargetOf(log[Len(log)].rel))
    /\ fs[TargetOf(log[Len(log)].rel)].mtime = src[SourcePath(log[Len(log)].rel)].mtime

Attempted(k) ==
  \E j \in 1..Len(log) : log[j].loop = plan[k].action /\ log[j].rel = plan[k].path

\* C10: a failed plan action does not stop the sender: when the sender has
\* stopped, every action of the plan has been attempted
C10_EveryActionAttempted ==
  s_pc \in {"done", "crashed"} => \A k \in 1..Len(plan) : Attempted(k)

\* C14: when the sender has run the patch sequence of a patch_file action
\* whose source file is empty, with no transport failure, the destination
\* file is there with zero bytes
C14_EmptySourcePatched ==
  (log # <<>> /\ log[Len(log)].ep = "finish_patch" /\ faults = 0
     /\ src[SourcePath(log[Len(log)].rel)].data = <<>>) =>
    /\ IsFile(fs, TargetOf(log[Len(log)].rel))
    /\ fs[TargetOf(log[Len(log)].rel)].data = <<>>

\* the snapshot was fetched and the planner has run on it
PlanMade == log # <<>> /\ log[1].ep = "directory_tree" /\ log[1].ok

\* C16: for a directory of the source at whose path the destination holds a
\* regular file, the plan has a delete of the path, then its create_directory,
\* then the creations of the directory's children
C16_FileReplacedByDirectory ==
  \A p \in DOMAIN src \ {<<>>} :
    (PlanMade /\ src[p].kind = "dir" /\ IsFile(fs0, SYNC_TARGET_DIRECTORY \o p)) =>
      \E i \in 1..Len(plan), j \in 1..Len(plan) :
        /\ i < j
        /\ plan[i].action = "delete" /\ NormPath(plan[i].path) = p
        /\ plan[j] = PlanAction("create_directory", RelPath(p))
        /\ \A c \in DOMAIN src : (Len(c) = Len(p) + 1 /\ IsPrefix(p, c)) =>
             \E k \in 1..Len(plan) :
               /\ j < k /\ NormPath(plan[k].path) = c
               /\ plan[k].action \in {"create_directory", "create_file"}

KindAt(f, p) == IF Exists(f, p) THEN f[p].kind ELSE "none"

\* the plan's actions for the path p, in the plan's order
ActionsAt(p) ==
  LET sel == SelectSeq(plan, LAMBDA x : NormPath(x.path) = p)
  IN [i \in 1..Len(sel) |-> sel[i].action]

\* what the snapshot the planner ran on holds at p
SnapshotKind(p) == KindAt(fs0, SYNC_TARGET_DIRECTORY \o p)

\* the source file and the snapshot's file at p carry the same identifier:
\* the same digest of the bytes, or the same size and mtime
SameIdentifier(p) ==
  LET there == fs0[SYNC_TARGET_DIRECTORY \o p]
  IN IF checksum THEN src[p].data = there.data
     ELSE Len(src[p].data) = Len(there.data) /\ src[p].mtime = there.mtime

\* C18: for a source file at p the plan holds exactly create_file(p) when the
\* snapshot has nothing at p, delete(p) then create_file(p) when it has a
\* directory, nothing when it has a file of the same identifier, patch_file(p)
\* when it has a file of another identifier; so every patch_file of the plan
\* names a path where the snapshot has a file
C18_FileBranchOfPlan ==
  PlanMade =>
    /\ \A p \in DOMAIN src :
         src[p].kind = "file" =>
           ActionsAt(p) =
             (CASE SnapshotKind(p) = "none" -> <<"create_file">>
                [] SnapshotKind(p) = "dir" -> <<"delete", "create_file">>
                [] SnapshotKind(p) = "file" ->
                     IF SameIdentifier(p) THEN <<>> ELSE <<"patch_file">>)
    /\ \A k \in 1..Len(plan) :
         plan[k].action = "patch_file" =>
           /\ SnapshotKind(NormPath(plan[k].path)) = "file"
           /\ src[NormPath(plan[k].path)].kind = "file"

\* a plan made for a source with a file the snapshot matches, next to a file
\* it has with other bytes of the same size
C18_Witness ==
  /\ PlanMade
  /\ \E p \in DOMAIN src, q \in DOMAIN src :
       /\ src[p].kind = "file" /\ SnapshotKind(p) = "file" /\ SameIdentifier(p)
       /\ ActionsAt(p) = <<>>
       /\ src[q].kind = "file" /\ SnapshotKind(q) = "file"
       /\ Len(src[q].data) = Len(fs0[SYNC_TARGET_DIRECTORY \o q].data)
       /\ ActionsAt(q) = <<"patch_file">>

\* how many delete actions the plan holds for the path c
DeletesOf(c) ==
  Len(SelectSeq(plan, LAMBDA x : x.action = "delete" /\ NormPath(x.path) = c))

\* p is a directory in the source and in the snapshot
DirectoryInBoth(p) ==
  p \in DOMAIN src /\ src[p].kind = "dir" /\ SnapshotKind(p) = "dir"

\* C19: for a directory that source and snapshot both have, the plan holds
\* exactly one delete for each entry the snapshot has there and the source has
\* not, be it a file or a directory with its subtree, and for an entry the
\* source has a delete only where a source file replaces a directory; the
\* plan holds no other delete
C19_LeftoversDeletedOnce ==
  PlanMade =>
    /\ \A p \in DOMAIN src, n \in Names :
         DirectoryInBoth(p) =>
           DeletesOf(Append(p, n)) =
             (IF Append(p, n) \notin DOMAIN src
              THEN (IF SnapshotKind(Append(p, n)) # "none" THEN 1 ELSE 0)
              ELSE (IF src[Append(p, n)].kind = "file" /\ SnapshotKind(Append(p, n)) = "dir"
                    THEN 1 ELSE 0))
    /\ \A k \in 1..Len(plan) :
         plan[k].action = "delete" =>
           /\ NormPath(plan[k].path) # <<>>
           /\ DirectoryInBoth(Front(NormPath(plan[k].path)))

\* a plan that removes a leftover directory holding a file with one delete
C19_Witness ==
  /\ PlanMade
  /\ \E c \in RelUniverse :
       /\ c \notin DOMAIN src /\ SnapshotKind(c) = "dir" /\ DeletesOf(c) = 1
       /\ \E n \in Names : SnapshotKind(Append(c, n)) = "file" /\ DeletesOf(Append(c, n)) = 0

\* api_call i is a content chunk of a create_file action of the first run that
\* did not reach the receiver, after a chunk of the same file that did
AbortedCreateChunk(i) ==
  /\ log[i].run = 1 /\ log[i].ep = "create_or_append_file" /\ ~log[i].served
  /\ \E h \in 1..(i - 1) :
       /\ log[h].run = 1 /\ log[h].ep = "create_or_append_file"
       /\ log[h].rel = log[i].rel /\ log[h].served

\* the second run has fetched its snapshot and made its plan
SecondPlanMade ==
  /\ run = 2
  /\ \E j \in 1..Len(log) : log[j].run = 2 /\ log[j].ep = "directory_tree" /\ log[j].ok

\* the second run ended past its last loop and none of its api_calls failed in
\* transport
SecondRunComplete ==
  /\ run = 2 /\ s_pc = "done"
  /\ \A j \in 1..Len(log) : log[j].run = 2 => log[j].fate = "ok"

\* C21: a create_file upload abandoned after some of its chunks leaves at the
\* target a file holding a proper part of the source's bytes from their start;
\* the plan of the next run holds a patch_file, and nothing else, for the
\* path; and when that run is complete the target holds exactly the source's
\* bytes
C21_TruncatedUploadRepaired ==
  \A i \in 1..Len(log) :
    (AbortedCreateChunk(i) /\ run = 2) =>
      LET target == TargetOf(log[i].rel)
          source == src[SourcePath(log[i].rel)].data
      IN /\ IsFile(fs0, target)
         /\ IsPrefixOf(fs0[target].data, source)
         /\ fs0[target].data # <<>> /\ fs0[target].data # source
         /\ SecondPlanMade => ActionsAt(NormPath(log[i].rel)) = <<"patch_file">>
         /\ SecondRunComplete => (IsFile(fs, target) /\ fs[target].data = source)

\* a complete second run after a first run that lost the second chunk of a
\* file's upload: the target held the first chunk's bytes and now holds all
C21_Witness ==
  /\ SecondRunComplete
  /\ \E i \in 1..Len(log) :
       /\ AbortedCreateChunk(i)
       /\ Len(fs0[TargetOf(log[i].rel)].data) = MAX_CHUNK_SIZE
       /\ fs[TargetOf(log[i].rel)].data = src[SourcePath(log[i].rel)].data

\* the side files of the first run's patches that the second run found on the
\* destination
LeftSideFiles ==
  {x \in DOMAIN fs0 :
     \E j \in 1..Len(log) :
       /\ log[j].run = 1 /\ log[j].ep = "create_or_append_patch"
       /\ x = SidePath(TargetOf(log[j].rel), log[j].sfx)}

\* C22: a side file an abandoned patch left on the destination is in no
\* snapshot the receiver returns afterwards, and the plan of the next run
\* holds no action for it
C22_SideFilesInert ==
  SecondPlanMade =>
    \A x \in LeftSideFiles :
      LET rel == SubSeq(x, Len(SYNC_TARGET_DIRECTORY) + 1, Len(x))
      IN /\ rel \notin DOMAIN recursive_list(fs0, SYNC_TARGET_DIRECTORY, checksum)
         /\ \A k \in 1..Len(plan) : NormPath(plan[k].path) # rel

\* ------------------------------------------------------------------------
\* The receiver serving an arbitrary client
\* ------------------------------------------------------------------------
RecvFiles == {FileEntry(<<1, 2, 0>>, 1)}

\* "a", "a/b", ".", "/etc", "a/../../etc", "../srv/a"
ClientRels == {<<"a">>, <<"a", "b">>, <<".">>, <<"", "etc">>,
               <<"a", "..", "..", "etc">>, <<"..", "srv", "a">>}
ClientSuffixes == {".t"}
ClientBodies == {<<1>>}
\* a header cut at the chunk's end; a literal declaring two bytes and carrying
\* one; a Copy of a block the old file does not have
LiteralCutChunk == Pack(2) \o <<2>>
MalformedChunks == {<<0, 0, 0>>, LiteralCutChunk, Pack(-5)}
\* the chunk that would follow LiteralCutChunk: the literal's second byte,
\* then Copy(0)
LiteralRestChunk == <<1>> \o Pack(0)
\* Copy(0) and a Literal of one byte; the malformed chunks; the rest chunk
ClientChunks == {Pack(0) \o Pack(1) \o <<2>>, LiteralRestChunk} \cup MalformedChunks

RecvInit ==
  /\ fs \in {Mounted(t) : t \in TreesOver(RecvFiles)}
  /\ fs0 = fs
  /\ PatchOff
  /\ SenderOff
  /\ ClientOff

\* the client's request q is served by handler result r; r_last keeps what was
\* at the requested path, and whether a file was at a directory above it
ClientServed(q, r) ==
  LET path == NormPath(PathJoin(SYNC_TARGET_DIRECTORY, q.rel))
  IN /\ r_n < MaxRequests
     /\ r_n' = r_n + 1
     /\ r_last' = [ep |-> q.ep, sfx |-> q.sfx, rel |-> q.rel, ok |-> r.ok,
                   was |-> KindAt(fs, path), answer |-> ResponseTo(q, r),
                   body |-> q.body,
                   above |-> \E k \in 1..(Len(path) - 1) : IsFile(fs, SubSeq(path, 1, k))]
     /\ UNCHANGED <<pvars, svars>>

ClientCreateDirectory ==
  \E rel \in ClientRels :
    LET q == Request("create_directory", "", rel, <<>>, 0)
    IN /\ fs' = do_POST(fs, q, Now).fs
       /\ ClientServed(q, do_POST(fs, q, Now))

ClientCreateOrAppendFile ==
  \E rel \in ClientRels, body \in ClientBodies :
    LET q == Request("create_or_append_file", "", rel, body, 0)
    IN /\ fs' = do_POST(fs, q, Now).fs
       /\ ClientServed(q, do_POST(fs, q, Now))

ClientCreateOrAppendPatch ==
  \E rel \in ClientRels, sfx \in ClientSuffixes, body \in ClientChunks :
    LET q == Request("create_or_append_patch", sfx, rel, body, 0)
    IN /\ fs' = do_POST(fs, q, Now).fs
       /\ ClientServed(q, do_POST(fs, q, Now))

ClientFinishPatch ==
  \E rel \in ClientRels, sfx \in ClientSuffixes, t \in MTimes :
    LET q == Request("finish_patch", sfx, rel, <<>>, t)
    IN /\ fs' = do_POST(fs, q, Now).fs
       /\ ClientServed(q, do_POST(fs, q, Now))

ClientUpdateFileMtime ==
  \E rel \in ClientRels, t \in MTimes :
    LET q == Request("update_file_mtime", "", rel, <<>>, t)
    IN /\ fs' = do_POST(fs, q, Now).fs
       /\ ClientServed(q, do_POST(fs, q, Now))

ClientDelete ==
  \E rel \in ClientRels :
    LET q == Request("delete_file_or_directory", "", rel, <<>>, 0)
    IN /\ fs' = do_POST(fs, q, Now).fs
       /\ ClientServed(q, do_POST(fs, q, Now))

ClientBlockChecksums ==
  \E rel \in ClientRels :
    /\ fs' = fs
    /\ ClientServed(Request("block_checksums", "", rel, <<>>, 0),
                    [fs |-> fs, ok |-> do_block_checksums(fs, rel).ok])

RecvNext ==
  \/ ClientCreateDirectory
  \/ ClientCreateOrAppendFile
  \/ ClientCreateOrAppendPatch
  \/ ClientFinishPatch
  \/ ClientUpdateFileMtime
  \/ ClientDelete
  \/ ClientBlockChecksums

SpecRecv == RecvInit /\ [][RecvNext]_vars

\* the requested path, normalized, is the root or below it
InsideRoot(rel) ==
  IsPrefix(SYNC_TARGET_DIRECTORY, NormPath(PathJoin(SYNC_TARGET_DIRECTORY, rel)))

\* C4: a request of any endpoint taking a relative path, whose path joined to
\* the root normalizes to a path outside the root, changes nothing in the
\* filesystem and does not succeed
C4_EscapeMutatesNothing ==
  [][(r_n' = r_n + 1 /\ ~InsideRoot(r_last'.rel)) => (fs' = fs /\ ~r_last'.ok)]_vars

\* a delete aimed at the file outside the root was refused and the file is there
C4_Witness ==
  /\ r_last.ep = "delete_file_or_directory"
  /\ r_last.rel = <<"a", "..", "..", "etc">>
  /\ ~r_last.ok
  /\ IsFile(fs, OutsideFile)

\* C8: create_directory(rel) leaves a directory at rel, and succeeds, also when
\* a file was at rel or at a directory above it; create_or_append_file(rel)
\* leaves a file at rel, and succeeds, also when a directory was at rel
C8_ConflictTolerated ==
  LET path == NormPath(PathJoin(SYNC_TARGET_DIRECTORY, r_last.rel))
  IN /\ (r_last.ep = "create_directory" /\ InsideRoot(r_last.rel)
           /\ (r_last.was = "file" \/ r_last.above))
          => (r_last.ok /\ IsDir(fs, path))
     /\ (r_last.ep = "create_or_append_file" /\ InsideRoot(r_last.rel)
           /\ r_last.was = "dir")
          => (r_last.ok /\ IsFile(fs, path))

\* C11: a request whose path joined to the root normalizes to a path outside
\* the root is answered, and the answer is the JSON with status "error"
C11_EscapeAnsweredWithError ==
  (r_n > 0 /\ ~InsideRoot(r_last.rel)) => r_last.answer = "error"

\* C15: create_or_append_patch on an existing file fails when the chunk is
\* malformed: a header cut at the chunk's end, a literal declaring more bytes
\* than the chunk carries, a Copy of a block index the old file does not have
C15_MalformedChunkFails ==
  (r_last.ep = "create_or_append_patch" /\ InsideRoot(r_last.rel)
     /\ r_last.was = "file" /\ r_last.body \in MalformedChunks) => ~r_last.ok

\* C17: when a chunk ended one byte into a literal of declared length two, the
\* next chunk for the same side file is read as the literal's second byte and
\* then parsed from its next header: the side file grows by that byte and by
\* what the following Copy(0) names
C17_LiteralCarriedAcrossChunks ==
  [][(/\ r_last.ep = "create_or_append_patch" /\ r_last.ok
      /\ r_last.body = LiteralCutChunk /\ InsideRoot(r_last.rel)
      /\ r_n' = r_n + 1
      /\ r_last'.ep = "create_or_append_patch" /\ r_last'.body = LiteralRestChunk
      /\ r_last'.rel = r_last.rel /\ r_last'.sfx = r_last.sfx)
     => LET target == NormPath(PathJoin(SYNC_TARGET_DIRECTORY, r_last.rel))
            side == SidePath(target, r_last.sfx)
        IN /\ r_last'.ok
           /\ fs'[side].data = fs[side].data \o <<1>> \o Block(fs[target].data, 0)]_vars

\* a path strictly below the root
BelowRoot(x) == IsPrefix(SYNC_TARGET_DIRECTORY, x) /\ x # SYNC_TARGET_DIRECTORY

\* C23: whatever requests were served, every path that is not strictly below
\* the root (the root itself, its side path root+suffix, the paths outside)
\* is as it was when the receiver started: neither created, nor written, nor
\* renamed, nor removed, nor replaced
C23_OnlyBelowRootTouched ==
  \A x \in DOMAIN fs \cup DOMAIN fs0 :
    ~BelowRoot(x) =>
      /\ x \in DOMAIN fs /\ x \in DOMAIN fs0
      /\ fs[x].kind = fs0[x].kind /\ fs[x].data = fs0[x].data

====
